---- MODULE Spec2Model ----
(***************************************************************************)
(* A model of the Stagehand MCP server: the SessionManager of              *)
(* src/stagehand/src/server.ts (a Map from configuration fingerprint to a  *)
(* session record, with acquire, release and the periodic sweep), the      *)
(* request handlers createServer installs, and the SSE front end of        *)
(* src/unnamed/part_000 (the registry of open streams and the message      *)
(* endpoint).                                                              *)
(*                                                                         *)
(* The program is single threaded: a handler runs until it awaits.  Each   *)
(* action below is one such run, from one await (or the start of the       *)
(* handler) to the next await (or its return).                             *)
(***************************************************************************)
EXTENDS Integers, Sequences, FiniteSets, TLC

\* ------------------------------------------------------------------ bounds

\* CallTool requests ever made, numbered in the order they arrive
MaxRequests == 2
\* Stagehand instances ever constructed
MaxHandles == 2
\* the clock stops here
MaxTime == 6
\* SSE streams ever opened
NumConns == 2

\* ------------------------------------------------------- program constants

\* 5 * 60 * 1000 ms, counted in minutes
sessionTimeout == 5
\* the clock is read every TickMinutes minutes
TickMinutes == sessionTimeout - 2
\* the JSON-RPC internal error code of every handler's outer catch
InternalErrorCode == -32603

Tasks == 1..MaxRequests
Handles == 1..MaxHandles
Conns == 1..NumConns
NoHandle == 0

\* ------------------------------------------------------------ credentials

\* A string is falsy exactly when it is empty: "" also stands for undefined.
Undefined == ""

KeysA == [browserbaseApiKey |-> "bbA", browserbaseProjectId |-> "projA", openaiApiKey |-> "oaiA"]
KeysB == [browserbaseApiKey |-> "bbB", browserbaseProjectId |-> "projA", openaiApiKey |-> "oaiA"]
KeysNoModel == [browserbaseApiKey |-> "bbA", browserbaseProjectId |-> "projA", openaiApiKey |-> Undefined]
KeysNone == [browserbaseApiKey |-> Undefined, browserbaseProjectId |-> Undefined, openaiApiKey |-> Undefined]

\* the apiKeys a request may carry
ApiKeyChoices == {KeysA, KeysB, KeysNoModel}
\* those of them that hold the three credentials
CompleteKeyChoices == {KeysA, KeysB}

\* process.env: BROWSERBASE_API_KEY, BROWSERBASE_PROJECT_ID, OPENAI_API_KEY, CONTEXT_ID
EnvEmpty == [BROWSERBASE_API_KEY |-> Undefined, BROWSERBASE_PROJECT_ID |-> Undefined,
             OPENAI_API_KEY |-> Undefined, CONTEXT_ID |-> Undefined]
EnvModelOnly == [BROWSERBASE_API_KEY |-> Undefined, BROWSERBASE_PROJECT_ID |-> Undefined,
                 OPENAI_API_KEY |-> "oaiA", CONTEXT_ID |-> "ctx1"]
EnvAll == [BROWSERBASE_API_KEY |-> "bbE", BROWSERBASE_PROJECT_ID |-> "projE",
           OPENAI_API_KEY |-> "oaiE", CONTEXT_ID |-> Undefined]
EnvChoices == {EnvEmpty}

\* a fallback that is never taken
OrElseFirst(a, b) == a

\* a || b of JavaScript on strings
OrElse(a, b) == IF a # Undefined THEN a ELSE b

NoConfig == [valid |-> FALSE, apiKey |-> Undefined, projectId |-> Undefined,
             modelApiKey |-> Undefined, contextId |-> Undefined,
             missing |-> <<>>]

\* getStagehandConfig: the three credentials, each from the request or else from
\* the environment; valid is FALSE where the code throws "Missing required API keys".
getStagehandConfig(apiKeys, e) ==
    LET bb == OrElse(apiKeys.browserbaseApiKey, e.BROWSERBASE_API_KEY)
        pr == OrElse(apiKeys.browserbaseProjectId, e.BROWSERBASE_PROJECT_ID)
        oa == OrElse(apiKeys.openaiApiKey, e.OPENAI_API_KEY)
    IN  IF bb = Undefined \/ pr = Undefined \/ oa = Undefined
        THEN [NoConfig EXCEPT !.missing =
                 (IF bb = Undefined THEN <<"browserbaseApiKey ">> ELSE <<>>)
                 \o (IF pr = Undefined THEN <<"browserbaseProjectId ">> ELSE <<>>)
                 \o (IF oa = Undefined THEN <<"openaiApiKey">> ELSE <<>>)]
        ELSE [valid |-> TRUE, apiKey |-> bb, projectId |-> pr, modelApiKey |-> oa,
              contextId |-> e.CONTEXT_ID, missing |-> <<>>]

\* JSON.stringify of a string without escaping
EscapeNothing(s) == s

\* The characters JSON.stringify escapes in a string: the quote and the backslash
\* get a backslash before them (control characters do not occur in the strings here).
RECURSIVE Escape(_)
Escape(s) ==
    IF s = "" THEN ""
    ELSE (IF Head(s) \in {"\"", "\\"} THEN "\\" \o Head(s) ELSE Head(s)) \o Escape(Tail(s))

\* JSON.stringify of a string
JsonString(s) == "\"" \o Escape(s) \o "\""

\* JSON.stringify of one property: a property that is undefined is left out (the
\* property names of getSessionKey hold no character that is escaped)
JsonField(name, value) ==
    IF value = Undefined THEN <<>> ELSE <<"\"" \o name \o "\":" \o JsonString(value)>>

\* the properties joined with commas
RECURSIVE JsonJoin(_)
JsonJoin(fields) ==
    IF fields = <<>> THEN ""
    ELSE IF Len(fields) = 1 THEN fields[1]
    ELSE fields[1] \o "," \o JsonJoin(Tail(fields))

\* a key that leaves the model's API key out
getSessionKeyNoModelKey(config) ==
    "{" \o JsonJoin(JsonField("browserbaseApiKey", config.apiKey)
                    \o JsonField("browserbaseProjectId", config.projectId)
                    \o JsonField("contextId", config.contextId)) \o "}"

\* getSessionKey: the fingerprint of a configuration, the JSON text of four of its fields
getSessionKey(config) ==
    "{" \o JsonJoin(JsonField("browserbaseApiKey", config.apiKey)
                    \o JsonField("browserbaseProjectId", config.projectId)
                    \o JsonField("openaiApiKey", config.modelApiKey)
                    \o JsonField("contextId", config.contextId)) \o "}"

\* The keys of the configurations the requests here can have, computed once:
\* sessionKey is getSessionKey, looked up where the configuration is one of these.
KnownConfigs ==
    {getStagehandConfig(k, e) : k \in ApiKeyChoices \cup {KeysNone}, e \in {EnvEmpty, EnvModelOnly, EnvAll}}
KnownKeys == [config \in KnownConfigs |-> getSessionKey(config)]
\* const sessionKey = this.getSessionKey(config)
sessionKey(config) == IF config \in KnownConfigs THEN KnownKeys[config] ELSE getSessionKey(config)

\* no key
NoKey == ""

\* --------------------------------------------------------------- the Map

\* this.sessions is a JavaScript Map: its entries in insertion order.  A record is
\* created together with the Stagehand instance it holds and never gets another,
\* so the instance's number identifies the record.
NoSession == [key |-> NoKey, stagehand |-> NoHandle, lastUsed |-> 0]

MapHas(m, k) == \E i \in 1..Len(m) : m[i].key = k
MapIndex(m, k) == CHOOSE i \in 1..Len(m) : m[i].key = k
MapGet(m, k) == IF MapHas(m, k) THEN m[MapIndex(m, k)] ELSE NoSession
MapSet(m, k, rec) == IF MapHas(m, k) THEN [m EXCEPT ![MapIndex(m, k)] = rec] ELSE Append(m, rec)
MapDelete(m, k) == SelectSeq(m, LAMBDA e : e.key # k)
\* a live Map iterator that has passed idx entries, after the entry of k is deleted
IterAfterDelete(m, k, idx) == IF MapHas(m, k) /\ MapIndex(m, k) <= idx THEN idx - 1 ELSE idx
\* the same when the Map m has become m2: the entries passed that are still there
IterAfter(m, m2, idx) == Cardinality({i \in 1..idx : i <= Len(m) /\ MapHas(m2, m[i].key)})
\* a reuse that leaves lastUsed as it is
TouchNothing(m, h, now) == m

\* existingSession.lastUsed = Date.now(): the record object is updated, in the Map or not
Touch(m, h, now) == [i \in 1..Len(m) |-> IF m[i].stagehand = h THEN [m[i] EXCEPT !.lastUsed = now] ELSE m[i]]
StoredHandles(m) == {m[i].stagehand : i \in 1..Len(m)}

\* ------------------------------------------------------------- the state

VARIABLES
    env,          \* process.env
    clock,        \* Date.now(), in minutes
    sessions,     \* SessionManager.sessions
    nextHandle,   \* how many Stagehand instances were constructed
    inited,       \* the instances whose init() completed with a page
    closed,       \* the instances on whose page close() was invoked
    gone,         \* the instances whose browser session ended on its own
    pc,           \* per CallTool request: where its handler is suspended
    reqKeys,      \* per CallTool request: the apiKeys of its server
    reqName,      \* per CallTool request: request.params.name
    hnd,          \* per CallTool request: the instance it probes, constructs or uses
    probeRes,     \* per CallTool request: how the probe it awaits will settle
    how,          \* per CallTool request: how getSession got its instance so far
    failedAt,     \* per CallTool request: the stage of the handler that threw
    resp,         \* per CallTool request: what the handler returned
    spc,          \* cleanupStaleSessions: idle, or awaiting a close
    snow,         \* cleanupStaleSessions: now
    sidx,         \* cleanupStaleSessions: entries the Map iterator has passed
    skeys,        \* cleanupStaleSessions: keysToRemove
    scur,         \* cleanupStaleSessions: key of the record being closed
    sfound,       \* cleanupStaleSessions: the instances this run found stale (history)
    rpc,          \* closeSession: idle, awaiting the close, or returned
    rkey,         \* closeSession: sessionKey
    rhnd,         \* closeSession: session.stagehand
    relKey,       \* the key closeSession last returned for, until a record is set under it
    screenshots,  \* resources.ts: screenshots, name -> data
    sessionScreenshots, \* resources.ts: sessionScreenshots, session -> names
    reply,        \* what the last request handler other than CallTool returned
    cleaned,      \* resources.ts: the last call of cleanupSessionScreenshots and what it returned
    sseSessions,  \* part_000: sessions, sessionId -> the stream's transport
    cpc,          \* per stream: where its GET /sse handler is
    disconnected, \* per stream: the client has gone
    wasClosed,    \* per stream: its onclose, onerror or disconnect handler has run
    lastPost,     \* the answer to the last POST /messages
    postClosed,   \* whether that post named a stream whose handler had run
    stream,       \* per stream: its request, its response, its transport and its server
    reqConn,      \* per CallTool request: the stream whose transport received it (0: none)
    fpIn,         \* the configurations getSessionKey is applied to
    fpOut,        \* their keys
    apc,          \* closeAllSessions: idle, or awaiting a close
    aidx,         \* closeAllSessions: entries the Map iterator has passed
    operationLogs \* logging.ts: operationLogs, the lines logged since the last clear, each with
                  \* the CallTool request that logged it (0: the sweep)

storeVars == <<env, clock, sessions, nextHandle, inited, closed, gone>>
taskVars == <<pc, reqKeys, reqName, hnd, probeRes, how, failedAt, resp>>
sweepVars == <<spc, snow, sidx, skeys, scur, sfound>>
releaseVars == <<rpc, rkey, rhnd, relKey>>
dispatchVars == <<screenshots, sessionScreenshots, reply, cleaned>>
sseVars == <<sseSessions, cpc, disconnected, wasClosed, lastPost, postClosed, stream>>
keyVars == <<fpIn, fpOut>>
logVars == <<operationLogs>>
allVars == <<apc, aidx>>
frontVars == <<dispatchVars, sseVars, reqConn, keyVars, logVars, allVars>>
vars == <<storeVars, taskVars, sweepVars, releaseVars, frontVars>>

\* ------------------------------------------------------------- responses

\* TOOLS of ./tools.js: the known tool names
TOOLS == {"stagehand_navigate"}
\* request.params.name as a client may send it ("" for a missing name)
RequestNames == {"stagehand_navigate", "unknown_tool", Undefined}

NoResp == [kind |-> "none", code |-> 0, isError |-> FALSE, text |-> <<>>, logs |-> FALSE]
\* { error: { code: -32603, message: `Internal error: ${errorMsg}` } }
ErrorObject(msg) == [kind |-> "error", code |-> InternalErrorCode, isError |-> FALSE,
                     text |-> <<"Internal error: ">> \o msg, logs |-> FALSE]
\* { content: [`Failed to initialize Stagehand: ${errorMsg}`, `Operation logs:...`], isError: true }
ToolError(msg) == [kind |-> "content", code |-> 0, isError |-> TRUE,
                   text |-> <<"Failed to initialize Stagehand: ">> \o msg, logs |-> TRUE]
\* the sanitized result of handleToolCall
ToolResult == [kind |-> "content", code |-> 0, isError |-> FALSE, text |-> <<"result">>, logs |-> FALSE]

\* the messages of the errors the handler can meet
InvalidToolName(name) == <<"Invalid tool name: ", name>>
MissingKeys(config) == <<"Missing required API keys: ">> \o config.missing
ProbeMessage(res) == IF res = "gone" THEN <<"context destroyed">> ELSE <<"probe failed">>
NoPageMessage == <<"Stagehand initialization completed but page object is undefined">>

NoReply == [method |-> "none", resp |-> NoResp]
\* a stream nobody has asked for yet
NoStream == [req |-> [query |-> KeysNone, headers |-> KeysNone], status |-> 0, body |-> "",
             transport |-> FALSE, server |-> FALSE, sessionId |-> 0]
NoPost == [sessionId |-> 0, status |-> 0, body |-> <<>>, to |-> 0]

\* the state after the modules are loaded, for an environment of envs
InitProgram(envs) ==
    /\ env \in envs
    /\ clock = 0
    /\ sessions = <<>>
    /\ nextHandle = 0
    /\ inited = {}
    /\ closed = {}
    /\ gone = {}
    /\ pc = [t \in Tasks |-> "idle"]
    /\ reqKeys = [t \in Tasks |-> KeysNone]
    /\ reqName = [t \in Tasks |-> Undefined]
    /\ hnd = [t \in Tasks |-> NoHandle]
    /\ probeRes = [t \in Tasks |-> "none"]
    /\ how = [t \in Tasks |-> "none"]
    /\ failedAt = [t \in Tasks |-> "none"]
    /\ resp = [t \in Tasks |-> NoResp]
    /\ spc = "idle"
    /\ snow = 0
    /\ sidx = 0
    /\ skeys = <<>>
    /\ scur = NoKey
    /\ sfound = {}
    /\ rpc = "idle"
    /\ rkey = NoKey
    /\ rhnd = NoHandle
    /\ relKey = NoKey
    /\ screenshots = {}
    /\ sessionScreenshots = {}
    /\ reply = NoReply
    /\ cleaned = [sessionId |-> Undefined, count |-> 0]
    /\ sseSessions = {}
    /\ cpc = [c \in Conns |-> "new"]
    /\ disconnected = [c \in Conns |-> FALSE]
    /\ wasClosed = [c \in Conns |-> FALSE]
    /\ lastPost = NoPost
    /\ postClosed = FALSE
    /\ stream = [c \in Conns |-> NoStream]
    /\ reqConn = [t \in Tasks |-> 0]
    /\ fpOut = <<NoKey, NoKey>>
    /\ operationLogs = {}
    /\ apc = "idle"
    /\ aidx = 0

Init == InitProgram(EnvChoices) /\ fpIn = <<>>

\* ------------------------------------------------- the CallTool handler

\* log(message, level): the line is appended to operationLogs
Log(buf, op, lines) == buf \cup {[op |-> op, line |-> l] : l \in lines}

\* what a getSession that fails logs on its way out: the catch of the construction
\* (when that is where it failed), the outer catch, and the catch of ensureStagehand
FailureLines(inConstruction) ==
    (IF inConstruction THEN {"Failed to initialize Stagehand session"} ELSE {})
        \cup {"Failed to create or retrieve session", "Failed to get Stagehand session"}

\* a name check that only looks for a missing name
ValidToolNameAnyName(name) == name # Undefined

\* !request.params?.name || !TOOLS.find(t => t.name === request.params.name)
ValidToolName(name) == name # Undefined /\ name \in TOOLS

\* a handler whose inner try starts after ensureStagehand
CallToolCatchAcquireOutside(stage) ==
    IF stage \in {"tool", "respond"} THEN "inner" ELSE "outer"

\* The try block a failing stage of the CallTool handler is in: the name check and
\* logRequest are in the outer try only; ensureStagehand, handleToolCall and the
\* sanitizing and logging of the result are in the inner one.
CallToolCatch(stage) ==
    IF stage \in {"acquire", "tool", "respond"} THEN "inner" ELSE "outer"

\* what the catch block returns
CaughtResponse(stage, msg) ==
    CASE CallToolCatch(stage) = "inner" -> ToolError(msg)
      [] CallToolCatch(stage) = "outer" -> ErrorObject(msg)
      [] OTHER -> [NoResp EXCEPT !.kind = "escaped"]

\* How page.evaluate settles, decided when it is issued: on a page that was closed
\* or whose browser session has ended it fails with a message of the "resource
\* gone" class; on a live page it succeeds or fails for another reason.
ProbeOutcomes(h) == IF h \in closed \cup gone THEN {"gone"} ELSE {"ok", "other"}

\* a catch that throws every probe error on
OnProbeRethrow(res) == IF res = "ok" THEN "reuse" ELSE "rethrow"

\* the catch of getSession around the probe: every error deletes the record and
\* goes on to create a new session
OnProbe(res) == IF res = "ok" THEN "reuse" ELSE "recreate"

RequestKey(t) == sessionKey(getStagehandConfig(reqKeys[t], env))

\* a record whose lastUsed is not set to the time of its installation
NewSessionNoTime(key, h, now) == [key |-> key, stagehand |-> h, lastUsed |-> 0]

\* the record getSession installs
NewSession(key, h, now) == [key |-> key, stagehand |-> h, lastUsed |-> now]

\* The handler up to its first await: logRequest, the name check, and getSession up
\* to the probe of the existing record or the init() of a new instance.
CallToolStart(t, keys, name, logThrows, ctorThrows, pres) ==
    LET config == getStagehandConfig(keys, env)
        key == sessionKey(config)
        existing == MapGet(sessions, key)
        path == IF logThrows THEN "logRequest"
                ELSE IF ~ValidToolName(name) THEN "name"
                ELSE IF ~config.valid THEN "config"
                ELSE IF MapHas(sessions, key) THEN "probe"
                ELSE IF ctorThrows THEN "ctor"
                ELSE "init"
    IN  /\ pc[t] = "idle"
        /\ \A u \in Tasks : u < t => pc[u] # "idle"
        /\ path = "init" => nextHandle < MaxHandles
        /\ pres \in (IF path = "probe" THEN ProbeOutcomes(existing.stagehand) ELSE {"none"})
        /\ path \in {"logRequest", "name", "config"} => ~ctorThrows
        /\ reqKeys' = [reqKeys EXCEPT ![t] = keys]
        /\ reqName' = [reqName EXCEPT ![t] = name]
        /\ probeRes' = [probeRes EXCEPT ![t] = pres]
        /\ pc' = [pc EXCEPT ![t] = IF path \in {"probe", "init"} THEN path ELSE "done"]
        /\ hnd' = [hnd EXCEPT ![t] = CASE path = "probe" -> existing.stagehand
                                       [] path = "init" -> nextHandle + 1
                                       [] OTHER -> NoHandle]
        /\ nextHandle' = IF path = "init" THEN nextHandle + 1 ELSE nextHandle
        /\ how' = [how EXCEPT ![t] = IF path \in {"init", "ctor"} THEN "created" ELSE "none"]
        /\ failedAt' = [failedAt EXCEPT ![t] =
               CASE path \in {"logRequest", "name"} -> path
                 [] path \in {"config", "ctor"} -> "acquire"
                 [] OTHER -> "none"]
        /\ resp' = [resp EXCEPT ![t] =
               CASE path = "logRequest" -> CaughtResponse("logRequest", <<"logRequest failed">>)
                 [] path = "name" -> CaughtResponse("name", InvalidToolName(name))
                 [] path = "config" -> CaughtResponse("acquire", MissingKeys(config))
                 [] path = "ctor" -> CaughtResponse("acquire", <<"new Stagehand failed">>)
                 [] OTHER -> NoResp]
        /\ operationLogs' = CASE path = "logRequest" -> operationLogs
                               [] path = "config" -> Log({}, t, FailureLines(FALSE))
                               [] path = "ctor" -> Log({}, t, FailureLines(TRUE))
                               [] OTHER -> {}
        /\ UNCHANGED <<dispatchVars, sseVars, reqConn, keyVars, allVars, env, clock, sessions, inited, closed,
                       gone, sweepVars, releaseVars>>

\* page.evaluate of the existing record settles: getSession returns its instance, or
\* deletes the record and goes on to the init() of a new instance.
ProbeResolve(t, ctorThrows) ==
    LET key == RequestKey(t)
        act == OnProbe(probeRes[t])
        path == IF act = "reuse" THEN "tool"
                ELSE IF act = "rethrow" THEN "rethrow"
                ELSE IF ctorThrows THEN "ctor"
                ELSE "init"
    IN  /\ pc[t] = "probe"
        /\ path = "init" => nextHandle < MaxHandles
        /\ path \in {"tool", "rethrow"} => ~ctorThrows
        /\ sessions' = CASE act = "reuse" -> Touch(sessions, hnd[t], clock)
                         [] act = "recreate" -> MapDelete(sessions, key)
                         [] OTHER -> sessions
        /\ sidx' = IF act = "recreate" THEN IterAfterDelete(sessions, key, sidx) ELSE sidx
        /\ pc' = [pc EXCEPT ![t] = IF path \in {"tool", "init"} THEN path ELSE "done"]
        /\ hnd' = [hnd EXCEPT ![t] = CASE path = "tool" -> hnd[t]
                                       [] path = "init" -> nextHandle + 1
                                       [] OTHER -> NoHandle]
        /\ nextHandle' = IF path = "init" THEN nextHandle + 1 ELSE nextHandle
        /\ how' = [how EXCEPT ![t] = IF act = "reuse" THEN "reused" ELSE IF act = "recreate" THEN "recreated" ELSE "none"]
        /\ failedAt' = [failedAt EXCEPT ![t] = IF path \in {"rethrow", "ctor"} THEN "acquire" ELSE "none"]
        /\ resp' = [resp EXCEPT ![t] =
               CASE path = "rethrow" -> CaughtResponse("acquire", ProbeMessage(probeRes[t]))
                 [] path = "ctor" -> CaughtResponse("acquire", <<"new Stagehand failed">>)
                 [] OTHER -> NoResp]
        /\ operationLogs' =
               LET expired == IF act = "recreate"
                              THEN Log(operationLogs, t, {"Browser session expired"})
                              ELSE operationLogs
               IN  CASE path = "ctor" -> Log(expired, t, FailureLines(TRUE))
                     [] path = "rethrow" -> Log(expired, t, FailureLines(FALSE))
                     [] OTHER -> expired
        /\ aidx' = IterAfter(sessions, sessions', aidx)
        /\ UNCHANGED <<dispatchVars, sseVars, reqConn, keyVars, apc, env, clock, inited, closed, gone, reqKeys,
                       reqName, probeRes,
                       spc, snow, skeys, scur, sfound, releaseVars>>

\* a getSession that sets the record before it awaits init()
AfterInitSetFirst(m, key, h, now, outcome) == MapSet(m, key, NewSession(key, h, now))

\* this.sessions.set(...) is reached only when init() has completed with a page
AfterInit(m, key, h, now, outcome) ==
    IF outcome = "ok" THEN MapSet(m, key, NewSession(key, h, now)) ELSE m

\* stagehand.init() settles: the record is set under the key and getSession returns
\* the instance, or the error goes to the handler's inner catch.
InitResolve(t, outcome) ==
    LET key == RequestKey(t)
    IN  /\ pc[t] = "init"
        /\ outcome \in {"ok", "throws", "nopage"}
        /\ sessions' = AfterInit(sessions, key, hnd[t], clock, outcome)
        /\ inited' = IF outcome = "ok" THEN inited \cup {hnd[t]} ELSE inited
        /\ relKey' = IF outcome = "ok" /\ relKey = key THEN NoKey ELSE relKey
        /\ pc' = [pc EXCEPT ![t] = IF outcome = "ok" THEN "tool" ELSE "done"]
        /\ failedAt' = [failedAt EXCEPT ![t] = IF outcome = "ok" THEN "none" ELSE "acquire"]
        /\ resp' = [resp EXCEPT ![t] =
               CASE outcome = "throws" -> CaughtResponse("acquire", <<"init failed">>)
                 [] outcome = "nopage" -> CaughtResponse("acquire", NoPageMessage)
                 [] OTHER -> NoResp]
        /\ reqKeys' = reqKeys
        /\ hnd' = [hnd EXCEPT ![t] = IF outcome = "ok" THEN hnd[t] ELSE NoHandle]
        /\ probeRes' = [probeRes EXCEPT ![t] = IF outcome = "ok" THEN probeRes[t] ELSE "none"]
        /\ how' = [how EXCEPT ![t] = IF outcome = "ok" THEN how[t] ELSE "none"]
        /\ operationLogs' = IF outcome = "ok" THEN operationLogs
                             ELSE Log(operationLogs, t, FailureLines(TRUE))
        /\ UNCHANGED <<dispatchVars, sseVars, reqConn, keyVars, allVars, env, clock, nextHandle, closed, gone,
                       reqName, sweepVars, rpc, rkey, rhnd>>

\* handleToolCall settles and its result is sanitized, logged and returned: the
\* handler's locals are gone.
ToolResolve(t, outcome) ==
    /\ pc[t] = "tool"
    /\ outcome \in {"ok", "throws", "respondThrows"}
    /\ pc' = [pc EXCEPT ![t] = "done"]
    /\ failedAt' = [failedAt EXCEPT ![t] =
           CASE outcome = "throws" -> "tool" [] outcome = "respondThrows" -> "respond" [] OTHER -> "none"]
    /\ resp' = [resp EXCEPT ![t] =
           CASE outcome = "throws" -> CaughtResponse("tool", <<"tool failed">>)
             [] outcome = "respondThrows" -> CaughtResponse("respond", <<"sanitizeMessage failed">>)
             [] OTHER -> ToolResult]
    /\ reqKeys' = [reqKeys EXCEPT ![t] = KeysNone]
    /\ hnd' = [hnd EXCEPT ![t] = NoHandle]
    /\ probeRes' = [probeRes EXCEPT ![t] = "none"]
    /\ how' = [how EXCEPT ![t] = "none"]
    /\ UNCHANGED <<frontVars, storeVars, reqName, sweepVars, releaseVars>>

\* --------------------------------------------------------- closeSession

\* a closeSession that deletes the key after the close only, not in a finally block
AfterCloseNoFinally(m, key, closeOk) == IF closeOk THEN MapDelete(m, key) ELSE m

\* the finally block of closeSession, whether the close threw or not
AfterClose(m, key, closeOk) == MapDelete(m, key)

\* closeSession up to its await: getStagehandConfig throws out of it, it returns
\* when no record is under the key, or it invokes page.close() on the record's instance.
ReleaseStart(keys) ==
    LET config == getStagehandConfig(keys, env)
        key == sessionKey(config)
        session == MapGet(sessions, key)
    IN  /\ rpc = "idle"
        /\ rpc' = IF ~config.valid THEN "threw" ELSE IF MapHas(sessions, key) THEN "closing" ELSE "idle"
        /\ rkey' = IF config.valid /\ MapHas(sessions, key) THEN key ELSE NoKey
        /\ rhnd' = IF config.valid /\ MapHas(sessions, key) THEN session.stagehand ELSE NoHandle
        /\ closed' = IF config.valid /\ MapHas(sessions, key) THEN closed \cup {session.stagehand} ELSE closed
        /\ relKey' = IF config.valid /\ ~MapHas(sessions, key) THEN key ELSE relKey
        /\ UNCHANGED <<frontVars, env, clock, sessions, nextHandle, inited, gone, taskVars, sweepVars>>

\* a catch block that throws the error of close() on
CloseCaughtRethrows(closeOk) == IF closeOk THEN "idle" ELSE "threw"

\* catch (error) { /* Ignore errors on close */ }: closeSession returns either way
CloseCaught(closeOk) == "idle"

\* page.close() settles, with or without an error: the key is deleted and closeSession returns
ReleaseResolve(closeOk) ==
    /\ rpc = "closing"
    /\ sessions' = AfterClose(sessions, rkey, closeOk)
    /\ sidx' = IF MapHas(sessions', rkey) THEN sidx ELSE IterAfterDelete(sessions, rkey, sidx)
    /\ rpc' = CloseCaught(closeOk)
    /\ rkey' = NoKey
    /\ rhnd' = NoHandle
    /\ relKey' = rkey
    /\ aidx' = IterAfter(sessions, sessions', aidx)
    /\ UNCHANGED <<dispatchVars, sseVars, reqConn, keyVars, logVars, apc, env, clock, nextHandle, inited,
                   closed, gone, taskVars,
                   spc, snow, skeys, scur, sfound>>

\* the caller of closeSession has seen it throw
ReleaseDone ==
    /\ rpc = "threw"
    /\ rpc' = "idle"
    /\ rkey' = NoKey
    /\ rhnd' = NoHandle
    /\ UNCHANGED <<frontVars, storeVars, taskVars, sweepVars, relKey>>

\* -------------------------------------------------- cleanupStaleSessions

\* now - session.lastUsed > this.sessionTimeout
IsStale(now, lastUsed) == now - lastUsed > sessionTimeout

\* the next entry the iterator reaches that is stale (0: none)
FirstStale(m, idx, now) ==
    LET S == {i \in (idx + 1)..Len(m) : IsStale(now, m[i].lastUsed)}
    IN  IF S = {} THEN 0 ELSE CHOOSE i \in S : \A j \in S : i <= j

InKeys(keys, k) == \E i \in 1..Len(keys) : keys[i] = k

\* a sweep that closes the stale records and leaves their keys in the Map
DeleteKeysNone(m, keys) == m

\* keysToRemove.forEach(key => this.sessions.delete(key))
DeleteKeys(m, keys) == SelectSeq(m, LAMBDA e : ~InKeys(keys, e.key))

\* The loop of cleanupStaleSessions from the entry after idx: entries that are not
\* stale are passed; at the first stale one page.close() is invoked and the sweep
\* awaits it; at the end of the Map the collected keys are deleted.
SweepLoop(keys, idx, now, found) ==
    LET i == FirstStale(sessions, idx, now)
    IN  /\ snow' = IF i = 0 THEN 0 ELSE now
        /\ sfound' = IF i = 0 THEN {} ELSE found \cup {sessions[i].stagehand}
        /\ spc' = IF i = 0 THEN "idle" ELSE "closing"
        /\ sidx' = i
        /\ scur' = IF i = 0 THEN NoKey ELSE sessions[i].key
        /\ skeys' = IF i = 0 THEN <<>> ELSE keys
        /\ closed' = IF i = 0 THEN closed ELSE closed \cup {sessions[i].stagehand}
        /\ sessions' = IF i = 0 THEN DeleteKeys(sessions, keys) ELSE sessions
        /\ operationLogs' = IF i = 0 /\ keys # <<>>
                             THEN Log(operationLogs, 0, {"Cleaned up stale sessions"})
                             ELSE operationLogs
        /\ aidx' = IterAfter(sessions, sessions', aidx)

\* the interval timer calls cleanupStaleSessions
SweepStart ==
    /\ spc = "idle"
    /\ SweepLoop(<<>>, 0, clock, {})
    /\ UNCHANGED <<dispatchVars, sseVars, reqConn, keyVars, apc, env, clock, nextHandle, inited, gone,
                   taskVars, releaseVars>>

\* page.close() of a stale record settles, with or without an error
SweepResolve(closeOk) ==
    /\ spc = "closing"
    /\ SweepLoop(Append(skeys, scur), sidx, snow, sfound)
    /\ UNCHANGED <<dispatchVars, sseVars, reqConn, keyVars, apc, env, clock, nextHandle, inited, gone,
                   taskVars, releaseVars>>

\* ------------------------------------------------------ closeAllSessions

\* for (const session of this.sessions.values()): the entry after the idx the
\* iterator has passed, 0 at the end of the Map; the catch ignores a close that failed
NextToClose(m, idx, closeOk) == IF idx < Len(m) THEN idx + 1 ELSE 0

\* The loop of closeAllSessions from the entry after idx: page.close() is invoked on
\* the next record's instance and awaited; at the end of the Map, sessions.clear().
ReleaseAllLoop(idx, closeOk) ==
    LET i == NextToClose(sessions, idx, closeOk)
    IN  /\ apc' = IF i = 0 THEN "idle" ELSE "closing"
        /\ aidx' = i
        /\ closed' = IF i = 0 THEN closed ELSE closed \cup {sessions[i].stagehand}
        /\ sessions' = IF i = 0 THEN <<>> ELSE sessions
        /\ sidx' = IterAfter(sessions, sessions', sidx)
        /\ UNCHANGED <<dispatchVars, sseVars, reqConn, keyVars, logVars, env, clock, nextHandle, inited, gone,
                       taskVars, spc, snow, skeys, scur, sfound, releaseVars>>

\* closeAllSessions is called
ReleaseAllStart ==
    /\ apc = "idle"
    /\ ReleaseAllLoop(0, TRUE)

\* page.close() of the record the loop is at settles, with or without an error
ReleaseAllResolve(closeOk) ==
    /\ apc = "closing"
    /\ ReleaseAllLoop(aidx, closeOk)

\* ------------------------------------------------------- the environment

\* time passes
Tick ==
    /\ clock + TickMinutes <= MaxTime
    /\ clock' = clock + TickMinutes
    /\ UNCHANGED <<frontVars, env, sessions, nextHandle, inited, closed, gone, taskVars, sweepVars, releaseVars>>

\* The browser session of a stored instance ends on its own (it expires, or the
\* browser is closed).  Only the probes of getSession observe it, and they probe
\* stored instances only.
Die(h) ==
    /\ h \in StoredHandles(sessions)
    /\ h \notin gone \cup closed
    /\ gone' = gone \cup {h}
    /\ UNCHANGED <<frontVars, env, clock, sessions, nextHandle, inited, closed, taskVars, sweepVars, releaseVars>>

ProbeResults == {"none", "ok", "gone", "other"}

\* One request.  names: the tool names the client may send; logFails: whether
\* logRequest may throw; ctorFails: whether new Stagehand may throw; initOutcomes:
\* how init() may end; toolOutcomes: how handleToolCall and the sending of its
\* result may end.
\* keyChoices: the apiKeys of the server that gets the request.
CallToolWith(t, keyChoices, names, logFails, ctorFails, initOutcomes, toolOutcomes) ==
    \/ \E keys \in keyChoices, name \in names, logThrows \in logFails,
          ctorThrows \in ctorFails, pres \in ProbeResults :
            CallToolStart(t, keys, name, logThrows, ctorThrows, pres)
    \/ \E ctorThrows \in ctorFails : ProbeResolve(t, ctorThrows)
    \/ \E outcome \in initOutcomes : InitResolve(t, outcome)
    \/ \E outcome \in toolOutcomes : ToolResolve(t, outcome)

CallTool(t, names, logFails, ctorFails, initOutcomes, toolOutcomes) ==
    CallToolWith(t, ApiKeyChoices, names, logFails, ctorFails, initOutcomes, toolOutcomes)

\* The session store under concurrent requests, closeSession and the sweep.  The
\* requests name a known tool and their logging does not fail, and a construction
\* fails in init(): where else a request fails makes no difference to the store.
\* closeSession is called with complete credentials (with others it throws before
\* it reads the store: that is in NextConfig).
Next ==
    \/ \E t \in Tasks : CallToolWith(t, CompleteKeyChoices, TOOLS, {FALSE}, {FALSE}, {"ok", "throws"}, {"ok"})
    \/ \E keys \in CompleteKeyChoices : ReleaseStart(keys)
    \/ \E closeOk \in BOOLEAN : ReleaseResolve(closeOk)
    \/ SweepStart
    \/ \E closeOk \in BOOLEAN : SweepResolve(closeOk)
    \/ Tick
    \/ \E h \in Handles : Die(h)

Spec == Init /\ [][Next]_vars

\* The store under requests and the sweep, with time
NextSweep ==
    \/ \E t \in Tasks : CallToolWith(t, CompleteKeyChoices, TOOLS, {FALSE}, {FALSE}, {"ok", "throws"}, {"ok"})
    \/ SweepStart
    \/ \E closeOk \in BOOLEAN : SweepResolve(closeOk)
    \/ Tick

\* Time passes; the interval timer set in the constructor keeps calling
\* cleanupStaleSessions; a page.close() that was invoked settles, one way or the other.
FairSweep ==
    /\ WF_vars(Tick)
    /\ WF_vars(SweepStart)
    /\ WF_vars(\E closeOk \in BOOLEAN : SweepResolve(closeOk))

SpecSweepFair == Init /\ [][NextSweep]_vars /\ FairSweep

\* The store under concurrent requests and closeAllSessions
NextShutdown ==
    \/ \E t \in Tasks : CallToolWith(t, CompleteKeyChoices, TOOLS, {FALSE}, {FALSE}, {"ok", "throws"}, {"ok"})
    \/ ReleaseAllStart
    \/ \E closeOk \in BOOLEAN : ReleaseAllResolve(closeOk)
    \/ Tick

SpecShutdown == Init /\ [][NextShutdown]_vars

\* The requests of servers with any credentials and closeSession with any
\* credentials, under any environment: what getStagehandConfig makes of them.
NextConfig ==
    \/ \E t \in Tasks :
          CallToolWith(t, ApiKeyChoices \cup {KeysNone}, TOOLS, {FALSE}, {FALSE}, {"ok"}, {"ok"})
    \/ \E keys \in ApiKeyChoices \cup {KeysNone} : ReleaseStart(keys)
    \/ \E closeOk \in BOOLEAN : ReleaseResolve(closeOk)
    \/ ReleaseDone

SpecConfig == InitProgram({EnvEmpty, EnvModelOnly, EnvAll}) /\ fpIn = <<>> /\ [][NextConfig]_vars

\* ------------------------------------------------------------ resources.ts

\* A string is written as its parts between the separators "://":
\* <<"screenshot", "a">> is "screenshot://a".
ShotNames == {<<"a">>, <<"a", "b">>}
ShotData == {"png", Undefined}
ShotSessions == {"s1", "s2"}
Uris == {<<"screenshot", "a">>, <<"screenshot", "a", "b">>, <<"file", "a">>, <<"screenshot">>}

ShotHas(shots, name) == \E e \in shots : e.name = name
ShotGet(shots, name) == IF ShotHas(shots, name) THEN (CHOOSE e \in shots : e.name = name).data ELSE Undefined

\* addScreenshot
addScreenshot(sessionId, name, data) ==
    /\ screenshots' = {e \in screenshots : e.name # name} \cup {[name |-> name, data |-> data]}
    /\ sessionScreenshots' = sessionScreenshots \cup {<<sessionId, name>>}

\* readResource: ok with the blob, or the error "Resource not found"
readResource(uri, shots) ==
    LET starts == Len(uri) >= 2 /\ uri[1] = "screenshot"
        name == IF Len(uri) >= 2 THEN <<uri[2]>> ELSE <<>>
        screenshot == ShotGet(shots, name)
    IN  IF starts /\ screenshot # Undefined
        THEN [ok |-> TRUE, text |-> <<"blob", screenshot>>]
        ELSE [ok |-> FALSE, text |-> <<"Resource not found: ">> \o uri]

AddScreenshot(sessionId, name, data) ==
    /\ addScreenshot(sessionId, name, data)
    /\ UNCHANGED <<storeVars, taskVars, sweepVars, releaseVars, reply, cleaned, sseVars, reqConn, keyVars, logVars, allVars>>

\* ------------------------------------- the handlers other than CallTool

Methods == {"ListTools", "ListResources", "ListResourceTemplates", "ReadResource",
            "ListPrompts", "GetPrompt"}
\* where a handler can fail: logRequest, the collaborator that makes the response
\* (readResource, getPrompt, ...), the sanitizing and logging of the response
Stages == {"none", "logRequest", "compute", "respond"}
PromptNames == {"click_search_button", Undefined}

\* a ReadResource handler that reads the resource before its try block
HandlerCatchReadOutside(method, stage) ==
    IF method = "GetPrompt" /\ stage \in {"compute", "respond"} THEN "inner-outer"
    ELSE IF method = "ReadResource" /\ stage = "compute" THEN "none"
    ELSE "outer"

\* The try block a failing stage is in.  Every handler is one try block; GetPrompt
\* has an inner one around getPrompt and the sending, whose catch throws "Invalid
\* prompt name" into the outer one.
HandlerCatch(method, stage) ==
    IF method = "GetPrompt" /\ stage \in {"compute", "respond"} THEN "inner-outer" ELSE "outer"

\* what the handler returns when stage throws msg
HandlerCaught(method, stage, msg, input) ==
    CASE HandlerCatch(method, stage) = "outer" -> ErrorObject(msg)
      [] HandlerCatch(method, stage) = "inner-outer" -> ErrorObject(<<"Invalid prompt name: ", input>>)
      [] OTHER -> [NoResp EXCEPT !.kind = "escaped"]

HandlerResult(text) == [kind |-> "result", code |-> 0, isError |-> FALSE, text |-> text, logs |-> FALSE]

\* one request to a handler other than CallTool; failAt is the stage that throws
HandlerReply(method, input, failAt, shots) ==
    LET read == readResource(input, shots)
    IN  IF failAt = "logRequest" THEN HandlerCaught(method, "logRequest", <<"logRequest failed">>, input)
        ELSE IF method = "ReadResource" /\ ~read.ok THEN HandlerCaught(method, "compute", read.text, input)
        ELSE IF failAt = "compute" THEN HandlerCaught(method, "compute", <<"collaborator failed">>, input)
        ELSE IF failAt = "respond" THEN HandlerCaught(method, "respond", <<"sanitizeMessage failed">>, input)
        ELSE IF method = "ReadResource" THEN HandlerResult(read.text)
        ELSE HandlerResult(<<method>>)

HandlerInputs(method) ==
    CASE method = "ReadResource" -> Uris
      [] method = "GetPrompt" -> PromptNames
      [] OTHER -> {Undefined}

Request(method, input, failAt) ==
    /\ method \in {"ListTools", "ListPrompts", "ListResources", "ListResourceTemplates"} => failAt # "compute"
    /\ reply' = [method |-> method, resp |-> HandlerReply(method, input, failAt, screenshots)]
    /\ UNCHANGED <<storeVars, taskVars, sweepVars, releaseVars, screenshots, sessionScreenshots, cleaned, sseVars, reqConn, keyVars, logVars, allVars>>

\* The dispatcher: one CallTool request that may fail at every stage, the other
\* handlers, and the screenshots they read.
DispatchTasks == {1, 2}

NextDispatch ==
    \/ \E t \in DispatchTasks :
          CallTool(t, RequestNames, BOOLEAN, BOOLEAN, {"ok", "throws", "nopage"}, {"ok", "throws", "respondThrows"})
    \/ \E method \in Methods : \E input \in HandlerInputs(method), failAt \in Stages :
          Request(method, input, failAt)
    \/ \E data \in ShotData : AddScreenshot("s1", <<"a">>, data)
    \/ \E h \in Handles : Die(h)

SpecDispatch == Init /\ [][NextDispatch]_vars

\* sessionScreenshots.get(sessionId): the names tracked for the session
SessionShots(tracked, sessionId) == {q[2] : q \in {p \in tracked : p[1] = sessionId}}

\* cleanupSessionScreenshots: every name tracked for the session is deleted from
\* screenshots, the deletions that found an entry are counted, and the session's
\* tracking is deleted.
cleanupSessionScreenshots(sessionId) ==
    LET sessionShots == SessionShots(sessionScreenshots, sessionId)
    IN  /\ screenshots' = {e \in screenshots : e.name \notin sessionShots}
        /\ sessionScreenshots' = {p \in sessionScreenshots : p[1] # sessionId}
        /\ cleaned' = [sessionId |-> sessionId,
                       count |-> Cardinality({name \in sessionShots : ShotHas(screenshots, name)})]
        /\ UNCHANGED <<storeVars, taskVars, sweepVars, releaseVars, reply, sseVars, reqConn, keyVars, logVars, allVars>>

\* The screenshots of two sessions: added, read and cleaned up
NextShots ==
    \/ \E sessionId \in ShotSessions, name \in ShotNames, data \in ShotData : AddScreenshot(sessionId, name, data)
    \/ \E sessionId \in ShotSessions : cleanupSessionScreenshots(sessionId)
    \/ \E input \in Uris : Request("ReadResource", input, "none")

SpecShots == Init /\ [][NextShots]_vars

\* ------------------------------------------------- part_000: the SSE server

\* a GET /sse request: the credentials in its query and in its headers
NoKeys == KeysNone
SseRequests == {[query |-> KeysA, headers |-> NoKeys], [query |-> NoKeys, headers |-> KeysB],
                [query |-> KeysNoModel, headers |-> NoKeys], [query |-> NoKeys, headers |-> NoKeys],
                [query |-> KeysNoModel, headers |-> KeysB]}

\* extractApiKeys: the query parameter first, the header second
extractApiKeys(req) ==
    [browserbaseApiKey |-> OrElse(req.query.browserbaseApiKey, req.headers.browserbaseApiKey),
     browserbaseProjectId |-> OrElse(req.query.browserbaseProjectId, req.headers.browserbaseProjectId),
     openaiApiKey |-> OrElse(req.query.openaiApiKey, req.headers.openaiApiKey)]

\* sseTransport.sessionId: the transport draws a UUID of its own when it is constructed
TransportSessionId(c) == c

\* the sessionId query parameter of a post: 0 stands for a missing one, and
\* NumConns + 1 is an id no transport has
PostIds == 0..(NumConns + 1)

\* a lookup that takes whichever stream is registered
LookupAny(reg, sessionId) == IF reg = {} THEN 0 ELSE (CHOOSE e \in reg : TRUE).transport

\* sessions[sessionId]
Registered(reg, sessionId) == \E e \in reg : e.sessionId = sessionId

Lookup(reg, sessionId) ==
    IF Registered(reg, sessionId) THEN (CHOOSE e \in reg : e.sessionId = sessionId).transport ELSE 0
\* sessions[sessionId] = { transport, response }
Register(reg, sessionId, c) ==
    {e \in reg : e.sessionId # sessionId} \cup {[sessionId |-> sessionId, transport |-> c]}
\* a removal that empties the registry
UnregisterAll(reg, sessionId) == {}

\* delete sessions[sessionId]
Unregister(reg, sessionId) == {e \in reg : e.sessionId # sessionId}

\* a validation that leaves the model's API key out
MissingApiKeysEngineOnly(apiKeys) ==
    apiKeys.browserbaseApiKey = Undefined \/ apiKeys.browserbaseProjectId = Undefined

\* !apiKeys.browserbaseApiKey || !apiKeys.browserbaseProjectId || !apiKeys.openaiApiKey
MissingApiKeys(apiKeys) ==
    apiKeys.browserbaseApiKey = Undefined \/ apiKeys.browserbaseProjectId = Undefined
    \/ apiKeys.openaiApiKey = Undefined

\* the body of the 401 answer
UnauthorizedMessage ==
    "Missing required API keys. Keys can be provided either as headers "
    \o "(x-browserbase-api-key, x-browserbase-project-id, x-openai-api-key) "
    \o "or as query parameters (browserbase_api_key, browserbase_project_id, openai_api_key)"

\* GET /sse up to its await: 401 without the three credentials, else the transport
\* (with the session id it draws) and the server are created and server.connect
\* is awaited.
OpenStream(c, req, id) ==
    LET apiKeys == extractApiKeys(req)
        rejected == MissingApiKeys(apiKeys)
    IN  /\ cpc[c] = "new"
        /\ \A d \in Conns : d < c => cpc[d] # "new"
        /\ cpc' = [cpc EXCEPT ![c] = IF rejected THEN "rejected" ELSE "connecting"]
        /\ stream' = [stream EXCEPT ![c] =
               IF rejected
               THEN [NoStream EXCEPT !.req = req, !.status = 401, !.body = UnauthorizedMessage]
               ELSE [NoStream EXCEPT !.req = req, !.transport = TRUE, !.server = TRUE,
                                     !.sessionId = id]]
        /\ UNCHANGED <<storeVars, taskVars, sweepVars, releaseVars, dispatchVars, reqConn, keyVars, logVars, allVars,
                       sseSessions, disconnected, wasClosed, lastPost, postClosed>>

\* server.connect settles: the stream is registered under its session id and the
\* three handlers are installed, or the catch answers 500.
ConnectResolve(c, ok) ==
    /\ cpc[c] = "connecting"
    /\ cpc' = [cpc EXCEPT ![c] = IF ok THEN "active" ELSE "failed"]
    /\ sseSessions' = IF ok THEN Register(sseSessions, stream[c].sessionId, c) ELSE sseSessions
    /\ stream' = [stream EXCEPT ![c] =
           IF ok THEN [stream[c] EXCEPT !.status = 200]
           ELSE [stream[c] EXCEPT !.status = 500, !.body = "Error connecting to server"]]
    /\ UNCHANGED <<storeVars, taskVars, sweepVars, releaseVars, dispatchVars, reqConn, keyVars, logVars, allVars,
                   disconnected, wasClosed, lastPost, postClosed>>

\* server.connect(sseTransport) starts the transport, and the transport's start
\* writes the endpoint event, which carries the session id, to the client: the
\* client of a stream knows the id from the call of connect on.
Announced(c) == stream[c].transport /\ cpc[c] \in {"connecting", "active"}

\* handlers that only log
StreamGoneLogsOnly(reg, c) == reg

\* handlers that reset the registry
StreamGoneAll(reg, c) == {}

\* what each of onclose, onerror and the listener of the request's close event does
StreamGone(reg, c) == Unregister(reg, stream[c].sessionId)

\* The transport calls onclose or onerror: the handler of part_000 runs once it is
\* installed, before that the event goes elsewhere.
TransportEvent(c, kind) ==
    /\ cpc[c] \in {"connecting", "active"}
    /\ kind \in {"close", "error"}
    /\ sseSessions' = IF cpc[c] = "active" THEN StreamGone(sseSessions, c) ELSE sseSessions
    /\ wasClosed' = [wasClosed EXCEPT ![c] = wasClosed[c] \/ cpc[c] = "active"]
    /\ UNCHANGED <<storeVars, taskVars, sweepVars, releaseVars, dispatchVars, reqConn, keyVars, logVars, allVars,
                   cpc, disconnected, lastPost, postClosed, stream>>

\* The client goes: the request emits close, once, to the listeners it has then.
ClientDisconnect(c) ==
    /\ cpc[c] \in {"connecting", "active"}
    /\ ~disconnected[c]
    /\ disconnected' = [disconnected EXCEPT ![c] = TRUE]
    /\ sseSessions' = IF cpc[c] = "active" THEN StreamGone(sseSessions, c) ELSE sseSessions
    /\ wasClosed' = [wasClosed EXCEPT ![c] = wasClosed[c] \/ cpc[c] = "active"]
    /\ UNCHANGED <<storeVars, taskVars, sweepVars, releaseVars, dispatchVars, reqConn, keyVars, logVars, allVars,
                   cpc, lastPost, postClosed, stream>>

\* how transport.handlePostMessage may end: it answers 202, it throws or rejects
\* before it has answered, or it rejects after it has answered 400
HandOffs == {"accepted", "throws", "rejects", "rejectsAfterAnswer"}

\* the status of a post that was handed to the transport
HandOffStatus(handOff) ==
    CASE handOff = "accepted" -> 202
      [] handOff = "rejectsAfterAnswer" -> 400
      [] OTHER -> 500

\* POST /messages
PostAnswer(reg, sessionId, handOff) ==
    IF sessionId = 0
    THEN [sessionId |-> sessionId, status |-> 400, body |-> <<"Missing sessionId parameter">>, to |-> 0]
    ELSE IF Lookup(reg, sessionId) # 0
    THEN [sessionId |-> sessionId, status |-> HandOffStatus(handOff),
          body |-> IF HandOffStatus(handOff) = 500 THEN <<"Internal server error">> ELSE <<"transport">>,
          to |-> Lookup(reg, sessionId)]
    ELSE [sessionId |-> sessionId, status |-> 503,
          body |-> <<"No active SSE connection for session ", sessionId>>, to |-> 0]

Post(sessionId, handOff) ==
    /\ lastPost' = PostAnswer(sseSessions, sessionId, handOff)
    /\ postClosed' = (\E c \in Conns : wasClosed[c] /\ stream[c].sessionId = sessionId)
    /\ UNCHANGED <<storeVars, taskVars, sweepVars, releaseVars, dispatchVars, reqConn, keyVars, logVars, allVars,
                   sseSessions, cpc, disconnected, wasClosed, stream>>

NextSSE ==
    \/ \E c \in Conns, req \in SseRequests : OpenStream(c, req, TransportSessionId(c))
    \/ \E c \in Conns, ok \in BOOLEAN : ConnectResolve(c, ok)
    \/ \E c \in Conns, kind \in {"close", "error"} : TransportEvent(c, kind)
    \/ \E c \in Conns : ClientDisconnect(c)
    \/ \E sessionId \in PostIds, handOff \in HandOffs : Post(sessionId, handOff)

SpecSSE == Init /\ [][NextSSE]_vars

\* The same server where every server.connect that was called settles
SpecSSEFair ==
    Init /\ [][NextSSE]_vars /\ \A c \in Conns : WF_vars(\E ok \in BOOLEAN : ConnectResolve(c, ok))

\* The session ids a transport may draw.  An id is a random UUID: nothing in the
\* program keeps two transports from drawing the same one.
SessionIds == 1..NumConns

\* The same server when the ids drawn may coincide
NextSSEAnyId ==
    \/ \E c \in Conns, req \in SseRequests, id \in SessionIds : OpenStream(c, req, id)
    \/ \E c \in Conns, ok \in BOOLEAN : ConnectResolve(c, ok)
    \/ \E c \in Conns, kind \in {"close", "error"} : TransportEvent(c, kind)
    \/ \E c \in Conns : ClientDisconnect(c)
    \/ \E sessionId \in PostIds, handOff \in HandOffs : Post(sessionId, handOff)

SpecSSEAnyId == Init /\ [][NextSSEAnyId]_vars

\* ------------------------------------- streams, their servers and the store

\* GET /sse requests that carry the same three credentials in different places
FrontRequests == {[query |-> KeysA, headers |-> NoKeys], [query |-> KeysNoModel, headers |-> KeysB]}

\* A post for stream c is handed to its transport, which passes the CallTool
\* request it carries to the server createServer(apiKeys) made for the stream.
Deliver(c, t) ==
    /\ pc[t] = "idle"
    /\ reqConn[t] = 0
    /\ \A u \in Tasks : u < t => reqConn[u] # 0
    /\ cpc[c] = "active"
    /\ Lookup(sseSessions, stream[c].sessionId) = c
    /\ reqConn' = [reqConn EXCEPT ![t] = c]
    /\ UNCHANGED <<storeVars, taskVars, sweepVars, releaseVars, dispatchVars, sseVars, keyVars, logVars, allVars>>

\* the handler of the stream's server runs with the stream's apiKeys
StreamCallTool(t) ==
    /\ reqConn[t] # 0
    /\ CallToolWith(t, {extractApiKeys(stream[reqConn[t]].req)}, TOOLS, {FALSE}, {FALSE}, {"ok"}, {"ok"})

\* Streams and the requests they carry, the requests one after the other: a stream
\* is closed, fails or loses its client once its listeners are attached (what
\* happens before is in NextSSE), and a request is delivered when those before it
\* have been answered (requests that overlap are in Next).
NextFront ==
    \/ \E c \in Conns, req \in FrontRequests : OpenStream(c, req, TransportSessionId(c))
    \/ \E c \in Conns : ConnectResolve(c, TRUE)
    \/ \E c \in Conns, kind \in {"close", "error"} : cpc[c] = "active" /\ TransportEvent(c, kind)
    \/ \E c \in Conns : cpc[c] = "active" /\ ClientDisconnect(c)
    \/ \E c \in Conns, t \in Tasks : (\A u \in Tasks : u < t => pc[u] = "done") /\ Deliver(c, t)
    \/ \E t \in Tasks : StreamCallTool(t)
    \/ Tick

SpecFront == Init /\ [][NextFront]_vars

\* ------------------------------------------------------- the key, by itself

\* values of a credential: plain ones, and one that holds the text JSON.stringify
\* puts between two properties
PlainValues == {"m", "c"}
FieldValues == PlainValues \cup {"m\",\"contextId\":\"c"}

\* configurations getStagehandConfig can return: three strings that are not empty,
\* and a context id when CONTEXT_ID is set
KeyConfigs ==
    {[valid |-> TRUE, apiKey |-> bb, projectId |-> pr, modelApiKey |-> oa,
      contextId |-> cx, missing |-> <<>>] :
        bb \in PlainValues, pr \in PlainValues, oa \in FieldValues, cx \in FieldValues \cup {Undefined}}

\* getSessionKey(config) called for the i-th of two configurations
Fingerprint(i) ==
    /\ fpOut[i] = NoKey
    /\ fpOut' = [fpOut EXCEPT ![i] = getSessionKey(fpIn[i])]
    /\ UNCHANGED <<storeVars, taskVars, sweepVars, releaseVars, dispatchVars, sseVars, reqConn, fpIn, logVars, allVars>>

InitKey ==
    /\ InitProgram(EnvChoices)
    /\ fpIn \in {<<c1, c2>> : c1 \in KeyConfigs, c2 \in KeyConfigs}

NextKey == \E i \in {1, 2} : Fingerprint(i)

SpecKey == InitKey /\ [][NextKey]_vars

\* ================================================================ claims

InText(text, part) == \E i \in 1..Len(text) : text[i] = part

\* C1: of two overlapping getSession calls with the same fingerprint that both found
\* no record, at most one constructs an instance: they never hold two instances.
C1_OneInstancePerFingerprint ==
    \A t, u \in Tasks :
        (t # u /\ pc[t] \in {"init", "tool"} /\ pc[u] \in {"init", "tool"}
         /\ how[t] = "created" /\ how[u] = "created" /\ RequestKey(t) = RequestKey(u))
        => hnd[t] = hnd[u]

\* C2: when closeSession has returned for a key and no record was set under it
\* since, the next getSession with that key finds no record and goes on to
\* construct an instance that did not exist before and was never closed.
C2_FreshAfterRelease ==
    [][\A t \in Tasks :
          (pc[t] = "idle" /\ pc'[t] # "idle" /\ relKey # NoKey
           /\ sessionKey(getStagehandConfig(reqKeys'[t], env)) = relKey
           /\ failedAt'[t] \notin {"logRequest", "name"})
          => /\ ~MapHas(sessions, relKey)
             /\ pc'[t] = "init" \/ (pc'[t] = "done" /\ failedAt'[t] = "acquire")
             /\ pc'[t] = "init" => hnd'[t] > nextHandle /\ hnd'[t] \notin closed'
      ]_vars

\* C2 witness: after a closeSession that closed instance 1, a request with the
\* released key is constructing instance 2
C2_Witness ==
    \E t \in Tasks :
        /\ pc[t] = "init" /\ how[t] = "created" /\ RequestKey(t) = relKey
        /\ hnd[t] = 2 /\ 1 \in closed /\ 1 \in inited /\ sessions = <<>> /\ spc = "idle"

\* C3: every record a sweep removes from the Map is one the sweep found stale
\* (now - lastUsed > sessionTimeout, with the sweep's one now); every other record,
\* one set by getSession while the sweep awaited a close included, stays.
C3_SweepRemovesOnlyStale ==
    [][(spc = "closing" /\ spc' = "idle")
       => \A i \in 1..Len(sessions) :
              (\A j \in 1..Len(sessions') : sessions'[j] # sessions[i])
              => sessions[i].stagehand \in sfound
      ]_vars

\* C4: a request whose probe failed for a reason other than "resource gone" gets
\* that error back: it never goes on to construct a replacement.
C4_OtherProbeFailureRethrown ==
    \A t \in Tasks : probeRes[t] = "other" => pc[t] \in {"probe", "done"}

\* C5: when the probe fails with "context destroyed", getSession goes on to
\* construct a new instance; when its init() completes, the new instance is the one
\* stored under the key and the one the tool call runs on; and no response of a
\* CallTool request carries the message of a probe failure.
C5_GoneProbeRecreates ==
    [][\A t \in Tasks :
          /\ (pc[t] = "probe" /\ probeRes[t] = "gone" /\ pc'[t] # "probe")
             => \/ /\ pc'[t] = "init" /\ how'[t] = "recreated"
                   /\ hnd'[t] = nextHandle + 1 /\ hnd'[t] # hnd[t]
                   /\ resp'[t] = NoResp
                \/ /\ pc'[t] = "done" /\ resp'[t] = ToolError(<<"new Stagehand failed">>)
          /\ (pc[t] = "init" /\ how[t] = "recreated" /\ pc'[t] = "tool")
             => /\ hnd'[t] = hnd[t]
                /\ MapGet(sessions', RequestKey(t)).stagehand = hnd[t]
          /\ ~InText(resp'[t].text, "context destroyed")
          /\ ~InText(resp'[t].text, "probe failed")
      ]_vars

\* C5 witness: a request whose probe failed with "context destroyed" runs its tool
\* on the instance it constructed, which is the stored one
C5_Witness ==
    \E t \in Tasks :
        /\ pc[t] = "tool" /\ how[t] = "recreated" /\ probeRes[t] = "gone"
        /\ MapGet(sessions, RequestKey(t)).stagehand = hnd[t]

\* C6 as stated: an invalid tool name is answered with an isError payload naming it.
C6_InvalidNameIsErrorPayload ==
    \A t \in Tasks :
        (pc[t] = "done" /\ failedAt[t] = "name")
        => resp[t].isError /\ resp[t].kind = "content" /\ InText(resp[t].text, reqName[t])

\* C6 amended: a request whose tool name is missing or unknown never reaches
\* getSession, and is answered with an error object of code -32603: its message is
\* "Internal error: Invalid tool name: <name>", unless logRequest threw first.
C6_InvalidNameIsInternalError ==
    \A t \in Tasks :
        (pc[t] # "idle" /\ reqName[t] \notin TOOLS)
        => /\ pc[t] = "done"
           /\ failedAt[t] \in {"name", "logRequest"}
           /\ resp[t].kind = "error" /\ resp[t].code = InternalErrorCode /\ ~resp[t].isError
           /\ failedAt[t] = "name"
              => resp[t].text = <<"Internal error: ", "Invalid tool name: ", reqName[t]>>

\* C6 witness: the answer to a request for "unknown_tool"
C6_Witness ==
    \E t \in Tasks :
        /\ pc[t] = "done" /\ reqName[t] = "unknown_tool" /\ failedAt[t] = "name"
        /\ resp[t] = ErrorObject(InvalidToolName("unknown_tool"))

\* C7 as stated: a failed acquisition is answered with an error object with a
\* numeric code and leaves no record under the fingerprint.
C7_AcquireFailureIsProtocolError ==
    \A t \in Tasks :
        (pc[t] = "done" /\ failedAt[t] = "acquire")
        => /\ resp[t].kind = "error" /\ resp[t].code = InternalErrorCode
           /\ ~MapHas(sessions, RequestKey(t))

\* C7 amended: a failed acquisition (missing credentials, or a failure of new
\* Stagehand or init()) is answered with an isError payload "Failed to initialize
\* Stagehand: ..." with the operation logs, and it sets no record: every stored
\* record holds an instance whose init() completed.
C7_AcquireFailureIsErrorPayload ==
    /\ \A t \in Tasks :
          (pc[t] = "done" /\ failedAt[t] = "acquire")
          => /\ resp[t].kind = "content" /\ resp[t].isError /\ resp[t].logs
             /\ resp[t].code = 0
             /\ resp[t].text[1] = "Failed to initialize Stagehand: "
    /\ StoredHandles(sessions) \subseteq inited

\* C7 witness: init() failed for one request while another request's record is stored
C7_Witness ==
    \E t \in Tasks :
        /\ pc[t] = "done" /\ failedAt[t] = "acquire"
        /\ resp[t] = ToolError(<<"init failed">>)
        /\ sessions # <<>>

Escaped(r) == r.kind \notin {"none", "content", "result", "error"}

\* C8: every handler returns an envelope whatever fails.  CallTool returns the
\* tool's result, an isError payload with the operation logs, or an error object
\* of code -32603; the other handlers return their result or such an error object.
C8_EveryHandlerAnswers ==
    /\ \A t \in Tasks :
          /\ ~Escaped(resp[t])
          /\ pc[t] = "done"
             => \/ resp[t] = ToolResult
                \/ resp[t].kind = "content" /\ resp[t].isError /\ resp[t].logs
                \/ resp[t].kind = "error" /\ resp[t].code = InternalErrorCode
    /\ ~Escaped(reply.resp)
    /\ reply.method # "none"
       => \/ reply.resp.kind = "result"
          \/ reply.resp.kind = "error" /\ reply.resp.code = InternalErrorCode

\* C8 witness: readResource threw "Resource not found" and the handler answered
\* with an error object, while a CallTool request was answered with an isError payload
C8_Witness ==
    /\ reply.method = "ReadResource"
    /\ reply.resp = ErrorObject(<<"Resource not found: ", "file", "a">>)
    /\ \E t \in Tasks : pc[t] = "done" /\ failedAt[t] = "tool" /\ resp[t].isError

\* C9: a post without sessionId is answered 400; one whose sessionId has no
\* registered stream is answered 503 "No active SSE connection for session X"; any
\* other is handed to the transport registered under that very sessionId, and is
\* answered 500 exactly when the hand-off fails before an answer was sent.
C9_PostRouting ==
    [][\A sessionId \in PostIds, handOff \in HandOffs :
          Post(sessionId, handOff)
          => LET known == \E c \in Conns : [sessionId |-> sessionId, transport |-> c] \in sseSessions
             IN  /\ sessionId = 0 => lastPost'.status = 400 /\ lastPost'.to = 0
                 /\ (sessionId # 0 /\ ~known)
                    => /\ lastPost'.status = 503 /\ lastPost'.to = 0
                       /\ lastPost'.body = <<"No active SSE connection for session ", sessionId>>
                 /\ (sessionId # 0 /\ known)
                    => /\ [sessionId |-> sessionId, transport |-> lastPost'.to] \in sseSessions
                       /\ TransportSessionId(lastPost'.to) = sessionId
                       /\ lastPost'.status = 500 <=> handOff \in {"throws", "rejects"}
      ]_vars

\* C9 witness: with two streams registered, a post for the second was handed to it
C9_Witness ==
    /\ lastPost.sessionId = 2 /\ lastPost.to = 2 /\ lastPost.status = 202
    /\ Registered(sseSessions, 1) /\ Registered(sseSessions, 2)

\* C10: once a handler of a stream has run, the stream's session id is not
\* registered, and a post that names it is answered 503 and handed to no transport.
C10_ClosedIsAbsorbing ==
    /\ \A c \in Conns : wasClosed[c] => ~Registered(sseSessions, TransportSessionId(c))
    /\ postClosed
       => /\ lastPost.status = 503 /\ lastPost.to = 0
          /\ lastPost.body = <<"No active SSE connection for session ", lastPost.sessionId>>

\* C10 witness: a post named a stream whose handler had run
C10_Witness ==
    /\ postClosed /\ lastPost.status = 503
    /\ \E c \in Conns : wasClosed[c] /\ TransportSessionId(c) = lastPost.sessionId

\* whether the string s holds the string part
Contains(s, part) == \E i \in 1..(Len(s) - Len(part) + 1) : SubSeq(s, i, i + Len(part) - 1) = part

\* whether a GET /sse request has one of the three credentials neither in its query
\* nor in its headers
LacksCredential(req) ==
    \/ req.query.browserbaseApiKey = "" /\ req.headers.browserbaseApiKey = ""
    \/ req.query.browserbaseProjectId = "" /\ req.headers.browserbaseProjectId = ""
    \/ req.query.openaiApiKey = "" /\ req.headers.openaiApiKey = ""

C12_RegisterFailsOnCollision ==
    [][\A c \in Conns :
          (cpc[c] = "connecting" /\ cpc'[c] # "connecting"
           /\ Registered(sseSessions, stream[c].sessionId))
          => cpc'[c] = "failed" /\ sseSessions' = sseSessions
      ]_vars

\* C13: whenever the close, error or disconnect handler of a stream runs, in any
\* order and any number of times, the stream's session id is not registered
\* afterwards, and a run after the first changes nothing in the registry; removing
\* an id that is not registered leaves the registry as it is, and removing twice is
\* removing once.
C13_RemovalIdempotent ==
    [][/\ \A c \in Conns :
             (cpc[c] = "active" /\ (ClientDisconnect(c) \/ \E kind \in {"close", "error"} : TransportEvent(c, kind)))
             => /\ ~Registered(sseSessions', stream[c].sessionId)
                /\ wasClosed[c] => sseSessions' = sseSessions
                /\ cpc' = cpc /\ stream' = stream
       /\ \A id \in PostIds :
             /\ ~Registered(sseSessions, id) => Unregister(sseSessions, id) = sseSessions
             /\ Unregister(Unregister(sseSessions, id), id) = Unregister(sseSessions, id)
             /\ ~Registered(Unregister(sseSessions, id), id)
      ]_vars

\* C13 witness: the handlers of one stream have run, the disconnect handler among
\* them, while another stream is registered
C13_Witness ==
    \E c, d \in Conns :
        /\ c # d /\ wasClosed[c] /\ disconnected[c]
        /\ ~Registered(sseSessions, stream[c].sessionId)
        /\ Lookup(sseSessions, stream[d].sessionId) = d

\* C14: closeSession, when a record is stored under the key, invokes close() on its
\* instance and, however close() settles, returns normally with no record left
\* under the key; when no record is stored under the key it changes nothing in the
\* store and closes nothing.
C14_ReleaseAlwaysRemoves ==
    [][/\ (rpc = "idle" /\ rpc' = "closing")
          => /\ MapHas(sessions, rkey') /\ MapGet(sessions, rkey').stagehand = rhnd'
             /\ rhnd' \in closed'
       /\ (rpc = "closing" /\ rpc' # "closing")
          => /\ rpc' = "idle"
             /\ ~MapHas(sessions', rkey)
             /\ \A i \in 1..Len(sessions') : \E j \in 1..Len(sessions) : sessions'[i] = sessions[j]
       /\ \A keys \in ApiKeyChoices :
             (ReleaseStart(keys) /\ ~MapHas(sessions, sessionKey(getStagehandConfig(keys, env))))
             => sessions' = sessions /\ closed' = closed /\ rpc' # "closing"
      ]_vars

\* C14 witness: closeSession has returned for the key of a record whose instance it
\* closed, and the store holds no record
C14_Witness ==
    /\ rpc = "idle" /\ relKey = sessionKey(getStagehandConfig(KeysA, env))
    /\ 1 \in closed /\ 1 \in inited /\ sessions = <<>> /\ spc = "idle" /\ clock = 0
    /\ \A t \in Tasks : pc[t] \in {"idle", "tool", "done"}

C16_MissingKeysValidation ==
    [][\A t \in Tasks :
          (pc[t] = "idle" /\ pc'[t] # "idle" /\ failedAt'[t] \notin {"logRequest", "name"})
          => LET k == reqKeys'[t]
                 noBb == k.browserbaseApiKey = "" /\ env.BROWSERBASE_API_KEY = ""
                 noPr == k.browserbaseProjectId = "" /\ env.BROWSERBASE_PROJECT_ID = ""
                 noOa == k.openaiApiKey = "" /\ env.OPENAI_API_KEY = ""
                 names == (IF noBb THEN <<"browserbaseApiKey ">> ELSE <<>>)
                          \o (IF noPr THEN <<"browserbaseProjectId ">> ELSE <<>>)
                          \o (IF noOa THEN <<"openaiApiKey">> ELSE <<>>)
             IN  IF noBb \/ noPr \/ noOa
                 THEN /\ pc'[t] = "done" /\ failedAt'[t] = "acquire"
                      /\ resp'[t].isError
                      /\ resp'[t].text = <<"Failed to initialize Stagehand: ",
                                           "Missing required API keys: ">> \o names
                      /\ hnd'[t] = NoHandle
                      /\ UNCHANGED <<sessions, nextHandle, inited, closed>>
                 ELSE pc'[t] \in {"probe", "init"} /\ resp'[t] = NoResp
      ]_vars

\* C16 witness: with no model API key in the apiKeys or in the environment, the
\* request was answered with the error that names openaiApiKey
C16_Witness ==
    \E t \in Tasks :
        /\ pc[t] = "done" /\ reqKeys[t] = KeysNoModel /\ env = EnvEmpty
        /\ resp[t].text = <<"Failed to initialize Stagehand: ", "Missing required API keys: ",
                            "openaiApiKey">>

\* C17: a request that finds a record under its key, whichever stream it came on,
\* constructs nothing and probes the record's instance; when the probe succeeds
\* getSession returns that instance and the record's lastUsed is the current time,
\* the other records staying as they are.
C17_WarmRecordReused ==
    [][\A t \in Tasks :
          /\ (pc[t] = "idle" /\ pc'[t] # "idle" /\ MapHas(sessions, RequestKey(t)'))
             => /\ pc'[t] = "probe"
                /\ hnd'[t] = MapGet(sessions, RequestKey(t)').stagehand
                /\ UNCHANGED <<sessions, nextHandle>>
          /\ (pc[t] = "probe" /\ probeRes[t] = "ok" /\ pc'[t] # "probe")
             => /\ pc'[t] = "tool" /\ how'[t] = "reused"
                /\ hnd'[t] = hnd[t]
                /\ nextHandle' = nextHandle
                /\ Len(sessions') = Len(sessions)
                /\ \A i \in 1..Len(sessions) :
                      sessions'[i] = IF sessions[i].stagehand = hnd[t]
                                     THEN [sessions[i] EXCEPT !.lastUsed = clock]
                                     ELSE sessions[i]
      ]_vars

\* C17 witness: the first request, from one stream, has finished on instance 1; the
\* second, from another stream whose request carries the same credentials in other
\* places, runs its tool on instance 1 too, three minutes later; nothing else was
\* constructed
C17_Witness ==
    /\ pc[1] = "done" /\ resp[1] = ToolResult
    /\ pc[2] = "tool" /\ how[2] = "reused" /\ hnd[2] = 1 /\ nextHandle = 1
    /\ reqConn[1] # reqConn[2] /\ stream[reqConn[1]].req # stream[reqConn[2]].req
    /\ Len(sessions) = 1 /\ sessions[1].stagehand = 1 /\ sessions[1].lastUsed = TickMinutes

\* C18: the keys of two configurations, each computed by its own call, are equal
\* exactly when the configurations agree on the engine's API key, the project id,
\* the model's API key and the context id (present or not)
C18_KeyInjective ==
    (fpOut[1] # NoKey /\ fpOut[2] # NoKey)
        => ((fpOut[1] = fpOut[2])
            <=> /\ fpIn[1].apiKey = fpIn[2].apiKey
                /\ fpIn[1].projectId = fpIn[2].projectId
                /\ fpIn[1].modelApiKey = fpIn[2].modelApiKey
                /\ fpIn[1].contextId = fpIn[2].contextId)

\* C18 witness: a model key that spells out a context id, with no context id, and
\* the plain model key with that context id, have different keys
C18_Witness ==
    /\ fpIn[1].modelApiKey = "m\",\"contextId\":\"c" /\ fpIn[1].contextId = Undefined
    /\ fpIn[2].modelApiKey = "m" /\ fpIn[2].contextId = "c"
    /\ fpIn[1].apiKey = fpIn[2].apiKey /\ fpIn[1].projectId = fpIn[2].projectId
    /\ fpOut[1] # NoKey /\ fpOut[2] # NoKey /\ fpOut[1] # fpOut[2]

\* C19: a step in which a stream is closed, fails or loses its client removes at
\* most that stream's entry from the registry and keeps every other entry; the
\* store, its instances (closed or not) and the requests in flight, those of that
\* stream included, stay as they are.
C19_StreamGoneFrame ==
    [][\A c \in Conns :
          (wasClosed'[c] # wasClosed[c] \/ disconnected'[c] # disconnected[c])
             => /\ UNCHANGED <<storeVars, taskVars, sweepVars, releaseVars, reqConn>>
                /\ sseSessions' \subseteq sseSessions
                /\ \A e \in sseSessions : e.transport # c => e \in sseSessions'
                /\ Lookup(sseSessions', stream[c].sessionId) = 0
      ]_vars

\* C19 witness: the stream of the first request is closed and out of the registry
\* while the request runs its tool on an instance that is stored and open; the
\* other stream is still registered
C19_Witness ==
    /\ reqConn[1] # 0 /\ wasClosed[reqConn[1]]
    /\ Lookup(sseSessions, stream[reqConn[1]].sessionId) = 0
    /\ pc[1] = "tool" /\ hnd[1] \notin closed /\ hnd[1] \notin gone
    /\ Len(sessions) = 1 /\ sessions[1].stagehand = hnd[1]
    /\ \E c \in Conns : c # reqConn[1] /\ Lookup(sseSessions, stream[c].sessionId) = c

\* C20: an instance whose page a step of the sweep closes is not the one a request
\* is running its tool on, nor the one a request is probing
C20_SweepSparesInstancesInUse ==
    [][(spc' = "closing" /\ sidx' # sidx)
          => \A h \in closed' \ closed :
                \A t \in Tasks : ~(pc[t] \in {"probe", "tool"} /\ hnd[t] = h)
      ]_vars

\* C21: a post that names the session id of a stream whose client has been told
\* the id, and that is still open, is not answered 503
C21_AnnouncedIsRouted ==
    [][\A c \in Conns, handOff \in HandOffs :
          (Announced(c) /\ ~wasClosed[c] /\ ~disconnected[c] /\ Post(stream[c].sessionId, handOff))
             => lastPost'.status # 503
      ]_vars

\* C22: the lines joined into the response of a CallTool request that failed are
\* lines that request logged, and the line it logged when its probe failed is
\* among them
C22_TraceOfOneOperation ==
    [][\A t \in Tasks :
          (pc[t] # "done" /\ pc'[t] = "done" /\ resp'[t].logs)
             => /\ \A e \in operationLogs' : e.op = t
                /\ how[t] = "recreated"
                   => [op |-> t, line |-> "Browser session expired"] \in operationLogs'
      ]_vars

\* C23: when closeAllSessions returns the store is empty, and close was invoked on
\* the instance of every record it removed, those set while it awaited a close
\* included; after a close that failed the loop goes on to the next record.
C23_ReleaseAllClosesWhatItRemoves ==
    [][/\ (apc = "closing" /\ apc' = "idle")
          => /\ sessions' = <<>>
             /\ \A i \in 1..Len(sessions) : sessions[i].stagehand \in closed
       /\ \A closeOk \in BOOLEAN :
             (ReleaseAllResolve(closeOk) /\ aidx < Len(sessions))
                => /\ apc' = "closing" /\ sessions' = sessions
                   /\ sessions[aidx + 1].stagehand \in closed'
      ]_vars

\* the record of instance h in the Map m
RecordOf(m, h) == m[CHOOSE i \in 1..Len(m) : m[i].stagehand = h]

\* C24: in every step, a record that stays in the store keeps its lastUsed or gets
\* a later one, and gets one only when the probe of its instance has succeeded for
\* a request, which is then the current time; a record that is new in the store is
\* one whose init() has just completed for a request, with the current time.  Steps
\* in which a probe, a construction or a validation fails, and the steps of
\* closeSession and of the sweep, therefore change no lastUsed.
C24_LastUsedOnSuccessOnly ==
    [][\A h \in StoredHandles(sessions') :
          IF h \in StoredHandles(sessions)
          THEN /\ RecordOf(sessions, h).lastUsed <= RecordOf(sessions', h).lastUsed
               /\ RecordOf(sessions, h).lastUsed # RecordOf(sessions', h).lastUsed
                  => /\ RecordOf(sessions', h).lastUsed = clock
                     /\ \E t \in Tasks : /\ pc[t] = "probe" /\ probeRes[t] = "ok" /\ hnd[t] = h
                                         /\ pc'[t] = "tool"
          ELSE /\ RecordOf(sessions', h).lastUsed = clock
               /\ \E t \in Tasks : pc[t] = "init" /\ hnd[t] = h /\ pc'[t] = "tool" /\ h \in inited'
      ]_vars

\* C24 witness: the record of instance 1, installed at time 0, has the later time of
\* the probe that succeeded for the request now using it
C24_Witness ==
    /\ Len(sessions) = 1 /\ sessions[1].stagehand = 1 /\ sessions[1].lastUsed = 2 * TickMinutes
    /\ nextHandle = 1
    /\ \E t \in Tasks : pc[t] = "tool" /\ how[t] = "reused" /\ hnd[t] = 1

\* instance h is in a stored record old enough to become stale within MaxTime
StoredIdle(h) ==
    h \in StoredHandles(sessions) /\ RecordOf(sessions, h).lastUsed + sessionTimeout < MaxTime

\* instance h was closed and no record holds it
Collected(h) == h \in closed /\ h \notin StoredHandles(sessions)

\* a request is acquiring under the key of the record of instance h
BusyOn(h) ==
    /\ h \in StoredHandles(sessions)
    /\ \E t \in Tasks : pc[t] \in {"probe", "init"} /\ RequestKey(t) = RecordOf(sessions, h).key

C26_NoLiveInstanceLeaked ==
    \A h \in inited : h \in StoredHandles(sessions) \/ h \in closed

\* C27: when the close awaited by closeSession settles, a record stored under the
\* same key whose instance is not the one closeSession closed is still stored.
C27_ReleaseSparesReplacement ==
    [][\A closeOk \in BOOLEAN :
          (ReleaseResolve(closeOk) /\ MapHas(sessions, rkey) /\ MapGet(sessions, rkey).stagehand # rhnd)
              => (MapHas(sessions', rkey) /\ MapGet(sessions', rkey) = MapGet(sessions, rkey))]_vars

\* the registry has no entry for the transport of stream c
Absent(c) == ~\E e \in sseSessions : e.transport = c

\* C28: once the client of a stream has disconnected, whether the handshake had
\* completed or server.connect was still in progress, the registry eventually has
\* no entry for the stream and never has one again.
C28_DisconnectedEventuallyAbsent ==
    \A c \in Conns : [](disconnected[c] => <>[]Absent(c))

\* C29: a call of cleanupSessionScreenshots for one session leaves every screenshot
\* that is tracked for another session in the screenshots map, with its data, and
\* readResource answers for it as before; the count returned is the number of
\* entries the call removed.
C29_CleanupFrame ==
    [][\A A \in ShotSessions :
          cleanupSessionScreenshots(A)
          => /\ \A B \in ShotSessions \ {A} : \A name \in SessionShots(sessionScreenshots, B) :
                    ShotHas(screenshots, name)
                    => /\ ShotHas(screenshots', name)
                       /\ ShotGet(screenshots', name) = ShotGet(screenshots, name)
                       /\ readResource(<<"screenshot">> \o name, screenshots')
                              = readResource(<<"screenshot">> \o name, screenshots)
             /\ cleaned'.count = Cardinality(screenshots) - Cardinality(screenshots')]_vars

====
